---- MODULE Spec2Model ----
(***************************************************************************)
(* SMS-Fix (src/app.py): the cleaning pipeline applied to an uploaded CSV  *)
(* of patient contacts.  A cell is a sequence of one-character strings, or *)
(* the marker NaN for pandas' missing value.  The script is modelled one   *)
(* stage per action, in the order of the source.                           *)
(***************************************************************************)
EXTENDS Integers, Sequences, FiniteSets, TLC

VARIABLES pc, uploaded, df, origin, missing_cols, original_mobiles,
          corrected, blanked, still_blank_mask, nhs_valid, dropped_count,
          both_missing, both_missing_count, cleaned_df, toasts,
          mobile, mpc

\* pc                 the stage of the script that runs next
\* uploaded           the frame pd.read_csv returned (line 23), kept as read
\* df                 the working frame
\* origin             for each row of df, its position in uploaded
\* missing_cols .. cleaned_df   the script's variables of the same names
\* toasts             the st.toast messages shown so far, in order
\* mobile, mpc        one cell given to clean_mobile, its result, and the
\*                    result of clean_mobile on that result
vars == <<pc, uploaded, df, origin, missing_cols, original_mobiles,
          corrected, blanked, still_blank_mask, nhs_valid, dropped_count,
          both_missing, both_missing_count, cleaned_df, toasts,
          mobile, mpc>>

pipelineVars == <<pc, uploaded, df, origin, missing_cols, original_mobiles,
                  corrected, blanked, still_blank_mask, nhs_valid,
                  dropped_count, both_missing, both_missing_count,
                  cleaned_df, toasts>>

(***************************************************************************)
(* Text and missing values                                                 *)
(***************************************************************************)

\* numpy.nan: the missing cell.  It is not a text.
NaN == <<"<NaN>">>

isna(x) == x = NaN

\* str(x): the text form of a cell; str(nan) is "nan".
str(x) == IF isna(x) THEN <<"n", "a", "n">> ELSE x

\* Elementwise != of pandas on object cells: nan is unequal to everything,
\* itself included.
ne(a, b) == isna(a) \/ isna(b) \/ a # b

Digit == {"0", "1", "2", "3", "4", "5", "6", "7", "8", "9"}

\* The characters str.strip() removes, among those the inputs use.
Whitespace == {" ", "\t", "\n", "\r"}

RECURSIVE lstrip(_)
lstrip(s) == IF s # <<>> /\ Head(s) \in Whitespace THEN lstrip(Tail(s)) ELSE s

RECURSIVE rstrip(_)
rstrip(s) ==
  IF s # <<>> /\ s[Len(s)] \in Whitespace
  THEN rstrip(SubSeq(s, 1, Len(s) - 1))
  ELSE s

strip(s) == rstrip(lstrip(s))

startswith(s, p) == Len(s) >= Len(p) /\ SubSeq(s, 1, Len(p)) = p

\* str.isdigit(): non-empty and every character a digit.
isdigit(s) == s # <<>> /\ \A i \in 1..Len(s) : s[i] \in Digit

\* re.sub(r"[ \-\(\)]", "", s)
IsSeparator(c) == c \in {" ", "-", "(", ")"}

remove_separators(s) == SelectSeq(s, LAMBDA c : ~IsSeparator(c))

\* "$" of Python's re without MULTILINE, tried after n matched characters:
\* it matches at the end of the text and also just before a newline that is
\* the last character of the text.
AtDollar(s, n) == Len(s) = n \/ (Len(s) = n + 1 /\ s[n + 1] = "\n")

\* \d{k} matched on s from position from
DigitsAt(s, from, k) ==
  Len(s) >= from + k - 1 /\ \A i \in from..(from + k - 1) : s[i] \in Digit

MobileDigits == 9

NhsDigits == 10

\* re.match(r"^07\d{9}$", s)
match_07(s) ==
  /\ startswith(s, <<"0", "7">>)
  /\ DigitsAt(s, 3, MobileDigits)
  /\ AtDollar(s, 2 + MobileDigits)

\* re.match(r"^\+447\d{9}$", s)
match_447(s) ==
  /\ startswith(s, <<"+", "4", "4", "7">>)
  /\ DigitsAt(s, 5, MobileDigits)
  /\ AtDollar(s, 4 + MobileDigits)

\* re.match(r"^\d{10}$", s)
match_nhs(s) == DigitsAt(s, 1, NhsDigits) /\ AtDollar(s, NhsDigits)

(***************************************************************************)
(* clean_mobile                                                            *)
(***************************************************************************)
clean_mobile(m) ==
  IF isna(m) THEN NaN
  ELSE
    LET s1 == strip(str(m))
        s2 == IF startswith(s1, <<"O", "7">>) \/ startswith(s1, <<"o", "7">>)
              THEN <<"0", "7">> \o SubSeq(s1, 3, Len(s1))
              ELSE s1
        s3 == IF startswith(s2, <<"7">>) /\ Len(s2) = 10 /\ isdigit(s2)
              THEN <<"0">> \o s2
              ELSE s2
        s4 == remove_separators(s3)
    IN  IF match_07(s4) THEN s4
        ELSE IF match_447(s4) THEN s4
        ELSE NaN

(***************************************************************************)
(* extract_email and the replacement of blank results                      *)
(***************************************************************************)

RECURSIVE before_first_space(_)
\* s.split(" ")[0]: the text before the first space character
before_first_space(s) ==
  IF s = <<>> \/ Head(s) = " " THEN <<>>
  ELSE <<Head(s)>> \o before_first_space(Tail(s))

extract_email(cell) ==
  LET s == strip(str(cell))
  IN  IF \E i \in 1..Len(s) : s[i] = " " THEN before_first_space(s) ELSE s

\* the replacement list with the bug of "None" left out
BlankEmailsShort == { <<>>, <<"n", "a", "n">>, <<"N", "a", "N">> }

\* the values .replace(["", "nan", "NaN", "None"], np.nan) turns into nan
BlankEmails ==
  { <<>>, <<"n", "a", "n">>, <<"N", "a", "N">>, <<"N", "o", "n", "e">> }

replace_blank(x) == IF x \in BlankEmails THEN NaN ELSE x

(***************************************************************************)
(* Data frames: the column names in order, the index labels and the rows,  *)
(* each row a function from the column names to cells.                     *)
(***************************************************************************)

NHS == "NHS number"

TEL == "Preferred telephone number"

DOB == "Date of birth"

FIRST == "First name"

EMAIL == "Email address"

required_cols == <<NHS, TEL, DOB, FIRST, EMAIL>>

output_cols == <<NHS, TEL, DOB, FIRST, EMAIL>>

Range(s) == { s[i] : i \in 1..Len(s) }

RangeIndex(n) == [i \in 1..n |-> i - 1]

NoFrame == [columns |-> <<>>, index |-> <<>>, rows |-> <<>>]

nrows(d) == Len(d.rows)

\* df[col]: the cells of one column, by position
column(d, col) == [i \in 1..nrows(d) |-> d.rows[i][col]]

\* df[col] = values
set_column(d, col, values) ==
  [d EXCEPT !.rows = [i \in 1..nrows(d) |-> [d.rows[i] EXCEPT ![col] = values[i]]]]

\* the positions a boolean mask selects, in order
selected(mask) == SelectSeq([i \in 1..Len(mask) |-> i], LAMBDA i : mask[i])

any(mask) == \E i \in 1..Len(mask) : mask[i]

\* mask.sum()
sum(mask) == Cardinality({ i \in 1..Len(mask) : mask[i] })

not(mask) == [i \in 1..Len(mask) |-> ~mask[i]]

\* df[mask]: the selected rows, each keeping its index label
boolean_index(d, mask) ==
  LET keep == selected(mask)
  IN  [columns |-> d.columns,
       index   |-> [k \in 1..Len(keep) |-> d.index[keep[k]]],
       rows    |-> [k \in 1..Len(keep) |-> d.rows[keep[k]]]]

\* .reset_index(drop=True)
reset_index(d) == [d EXCEPT !.index = RangeIndex(nrows(d))]

\* df[mask].index.tolist()
index_list(d, mask) == boolean_index(d, mask).index

\* df[output_cols].copy(), with the bug of the selection forgotten
select_columns_all(d, cols) == d

\* df[output_cols].copy()
select_columns(d, cols) ==
  [columns |-> cols,
   index   |-> d.index,
   rows    |-> [i \in 1..nrows(d) |-> [c \in Range(cols) |-> d.rows[i][c]]]]

\* The input positions of the rows a mask keeps.
keep_origin(o, mask) ==
  LET keep == selected(mask) IN [k \in 1..Len(keep) |-> o[keep[k]]]

Toast(kind, rows, count, cols) ==
  [kind |-> kind, rows |-> rows, count |-> count, cols |-> cols]

(***************************************************************************)
(* The uploaded tables                                                     *)
(***************************************************************************)

MaxRows == 3

Nine == <<"1", "2", "3", "4", "5", "6", "7", "8", "9">>

Mobile07 == <<"0", "7">> \o Nine

EmailAB == <<"a", "@", "b", ".", "c", "o", "m">>

EmailCD == <<"c", "@", "d", ".", "c", "o", "m">>

SURNAME == "Surname"

NOTES == "Notes"

\* One row of a CSV whose header has every column below.
Row(nhs, tel, dob, first, email) ==
  [c \in {NHS, TEL, DOB, FIRST, EMAIL, SURNAME, NOTES} |->
     CASE c = NHS   -> nhs
       [] c = TEL   -> tel
       [] c = DOB   -> dob
       [] c = FIRST -> first
       [] c = EMAIL -> email
       [] c = SURNAME -> <<"X">>
       [] OTHER     -> NaN]

RowInputs ==
  { Row(Nine \o <<"0">>, <<"O", "7">> \o Nine, <<"1", "9", "9", "0">>,
        <<"A", "n", "n">>, EmailAB \o <<" ", "e", "x", "t", ".", "1", "2", "3">>),
    Row(<<"b", "a", "d">>, Mobile07, <<"1", "9", "8", "5">>,
        <<"B", "o", "b">>, EmailCD),
    Row(Nine \o <<"1">>, NaN, NaN, <<"C", "a", "t">>, NaN),
    Row(Nine \o <<"0", "\n">>, <<"1", "2", "3">>, <<"2", "0", "0", "1">>,
        <<"D", "a", "n">>, <<" ">> \o EmailCD \o <<"\n">>),
    Row(Nine \o <<"0">>, Mobile07 \o <<"\n", ")">>, <<"1", "9", "7", "0">>,
        <<" ", "E", "v", "e">>, EmailAB \o <<"\t", "h", "o", "m", "e">>),
    Row(Nine, <<"1", "2", "3">>, <<"1", "9", "6", "0">>, NaN, NaN),
    Row(Nine \o <<"0", "1">>, <<"+", "4", "4", " ", "7">> \o Nine,
        <<"1", "9", "9", "9">>, <<"F", "a", "y">>, <<"N", "o", "n", "e">>),
    Row(NaN, <<"7">> \o Nine, <<"1", "9", "5", "0">>, <<"G", "u", "s">>,
        <<" ">>),
    Row(Nine \o <<"2">>, <<"0", "7", "1", "2", "3">>, <<"1", "9", "4", "0">>,
        <<"H", "a", "l">>, <<"n", "a", "n", " ", "x">>) }

\* The headers: the required columns alone, the required columns shuffled
\* among others, and headers that lack some or all required columns.
Headers ==
  { <<NHS, TEL, DOB, FIRST, EMAIL>>,
    <<SURNAME, EMAIL, FIRST, NOTES, NHS, DOB, TEL>>,
    <<NHS, TEL, DOB, FIRST>>,
    <<FIRST, SURNAME, TEL, EMAIL>>,
    <<SURNAME>> }

\* pd.read_csv: the frame of a header and its rows, indexed 0..n-1
read_csv(header, rows) ==
  [columns |-> header,
   index   |-> RangeIndex(Len(rows)),
   rows    |-> [i \in 1..Len(rows) |-> [c \in Range(header) |-> rows[i][c]]]]

Tables ==
  { read_csv(h, rs) :
      h \in Headers, rs \in UNION { [1..n -> RowInputs] : n \in 0..MaxRows } }

(***************************************************************************)
(* The script                                                              *)
(***************************************************************************)

Init ==
  /\ uploaded \in Tables
  /\ df = uploaded
  /\ origin = RangeIndex(nrows(uploaded))
  /\ pc = "check_columns"
  /\ missing_cols = <<>>
  /\ original_mobiles = <<>>
  /\ corrected = <<>>
  /\ blanked = <<>>
  /\ still_blank_mask = <<>>
  /\ nhs_valid = <<>>
  /\ dropped_count = 0
  /\ both_missing = <<>>
  /\ both_missing_count = 0
  /\ cleaned_df = NoFrame
  /\ toasts = <<>>
  /\ mobile = [raw |-> NaN, once |-> NaN, twice |-> NaN]
  /\ mpc = "off"

\* [col for col in required_cols if col not in df.columns], with the bug
\* of the two lists exchanged
missing_columns_exchanged(d) ==
  SelectSeq(d.columns, LAMBDA col : col \notin Range(required_cols))

\* [col for col in required_cols if col not in df.columns]
missing_columns(d) ==
  SelectSeq(required_cols, LAMBDA col : col \notin Range(d.columns))

\* lines 33-44: stop when a required column is missing
CheckColumns ==
  /\ pc = "check_columns"
  /\ LET missing == missing_columns(df)
     IN  /\ missing_cols' = missing
         /\ IF missing # <<>>
            THEN /\ toasts' = Append(toasts, Toast("missing_columns", <<>>, 0, missing))
                 /\ pc' = "stopped"
            ELSE /\ toasts' = toasts
                 /\ pc' = "clean_mobile"
  /\ UNCHANGED <<uploaded, df, origin, original_mobiles, corrected, blanked,
                 still_blank_mask, nhs_valid, dropped_count, both_missing,
                 both_missing_count, cleaned_df, mobile, mpc>>

\* lines 66-82: normalise the mobiles and warn about the changes
CleanMobiles ==
  /\ pc = "clean_mobile"
  /\ LET old == column(df, TEL)
         new == [i \in 1..nrows(df) |-> clean_mobile(old[i])]
         ndf == set_column(df, TEL, new)
         cor == [i \in 1..nrows(df) |-> ne(old[i], new[i]) /\ ne(new[i], <<>>)]
         bla == [i \in 1..nrows(df) |-> ~ne(new[i], <<>>)]
         t1  == IF any(cor)
                THEN Append(toasts, Toast("mobile_corrected", index_list(ndf, cor), 0, <<>>))
                ELSE toasts
         t2  == IF any(bla)
                THEN Append(t1, Toast("mobile_blanked", index_list(ndf, bla), 0, <<>>))
                ELSE t1
     IN  /\ original_mobiles' = old
         /\ df' = ndf
         /\ corrected' = cor
         /\ blanked' = bla
         /\ toasts' = t2
  /\ pc' = "extract_email"
  /\ UNCHANGED <<uploaded, origin, missing_cols, still_blank_mask, nhs_valid,
                 dropped_count, both_missing, both_missing_count, cleaned_df,
                 mobile, mpc>>

\* lines 84-101: keep the text before the first space, blank the empty ones
ExtractEmails ==
  /\ pc = "extract_email"
  /\ LET old  == column(df, EMAIL)
         new  == [i \in 1..nrows(df) |-> replace_blank(extract_email(old[i]))]
         ndf  == set_column(df, EMAIL, new)
         mask == [i \in 1..nrows(df) |-> isna(new[i])]
     IN  /\ df' = ndf
         /\ still_blank_mask' = mask
         /\ toasts' = IF any(mask)
                      THEN Append(toasts, Toast("email_blank", index_list(ndf, mask), 0, <<>>))
                      ELSE toasts
  /\ pc' = "nhs_filter"
  /\ UNCHANGED <<uploaded, origin, missing_cols, original_mobiles, corrected,
                 blanked, nhs_valid, dropped_count, both_missing,
                 both_missing_count, cleaned_df, mobile, mpc>>

\* (~nhs_valid).sum(), with the bug of the negation forgotten
invalid_count_unnegated(valid) == sum(valid)

\* (~nhs_valid).sum()
invalid_count(valid) == sum(not(valid))

\* lines 103-109: drop the rows whose NHS number is not ten digits
NhsFilter ==
  /\ pc = "nhs_filter"
  /\ LET valid == [i \in 1..nrows(df) |-> match_nhs(str(df.rows[i][NHS]))]
         count == invalid_count(valid)
     IN  /\ nhs_valid' = valid
         /\ dropped_count' = count
         /\ toasts' = IF count > 0
                      THEN Append(toasts, Toast("nhs_dropped", <<>>, count, <<>>))
                      ELSE toasts
         /\ df' = reset_index(boolean_index(df, valid))
         /\ origin' = keep_origin(origin, valid)
  /\ pc' = "both_missing_filter"
  /\ UNCHANGED <<uploaded, missing_cols, original_mobiles, corrected, blanked,
                 still_blank_mask, both_missing, both_missing_count,
                 cleaned_df, mobile, mpc>>

\* isna() | (astype(str).str.strip() == "")
is_missing(x) == isna(x) \/ strip(str(x)) = <<>>

\* lines 111-119: drop the rows with neither mobile nor email
BothMissingFilter ==
  /\ pc = "both_missing_filter"
  /\ LET mobile_missing == [i \in 1..nrows(df) |-> is_missing(df.rows[i][TEL])]
         email_missing  == [i \in 1..nrows(df) |-> is_missing(df.rows[i][EMAIL])]
         both  == [i \in 1..nrows(df) |-> mobile_missing[i] /\ email_missing[i]]
         count == sum(both)
     IN  /\ both_missing' = both
         /\ both_missing_count' = count
         /\ toasts' = IF count > 0
                      THEN Append(toasts, Toast("both_missing_dropped", <<>>, count, <<>>))
                      ELSE toasts
         /\ df' = reset_index(boolean_index(df, not(both)))
         /\ origin' = keep_origin(origin, not(both))
  /\ pc' = "project"
  /\ UNCHANGED <<uploaded, missing_cols, original_mobiles, corrected, blanked,
                 still_blank_mask, nhs_valid, dropped_count, cleaned_df,
                 mobile, mpc>>

\* lines 121-135: the cleaned frame has the required columns only
Project ==
  /\ pc = "project"
  /\ cleaned_df' = select_columns(df, output_cols)
  /\ pc' = "done"
  /\ UNCHANGED <<uploaded, df, origin, missing_cols, original_mobiles,
                 corrected, blanked, still_blank_mask, nhs_valid,
                 dropped_count, both_missing, both_missing_count, toasts,
                 mobile, mpc>>

Next ==
  \/ CheckColumns
  \/ CleanMobiles
  \/ ExtractEmails
  \/ NhsFilter
  \/ BothMissingFilter
  \/ Project

Spec == Init /\ [][Next]_vars

(***************************************************************************)
(* clean_mobile on its own: one raw cell, cleaned and cleaned again        *)
(***************************************************************************)

MobileLeads == { <<>>, <<" ">>, <<"\t", " ">>, <<"(">> }

MobileHeads ==
  { <<"0", "7">>, <<"O", "7">>, <<"o", "7">>, <<"7">>, <<"0", "8">>,
    <<"+", "4", "4", "7">>, <<"+", "4", "4", " ", "7">>, <<"4", "4", "7">>,
    <<"0", "0", "7">> }

MobileBodies ==
  { Nine,
    <<"1", "2", "3", "4", "5", "6", "7", "8">>,
    Nine \o <<"0">>,
    <<"1", "2", "3", " ", "4", "5", "6", "-", "7", "8", "9">>,
    <<"1", "2", "3", "4", " ", "4", "5", "6", "7", "8", "9">>,
    <<"1", "2", "3", "4", "x", "6", "7", "8", "9">>,
    <<>> }

MobileTails ==
  { <<>>, <<" ">>, <<"\n">>, <<")">>, <<"\n", ")">>, <<"\n", "\n", " ", "-">>,
    <<"x">> }

MobileInputs ==
  { l \o h \o b \o t :
      l \in MobileLeads, h \in MobileHeads, b \in MobileBodies, t \in MobileTails }
  \cup { NaN, <<>>, <<"1", "2", "3">>, <<"n", "a", "n">> }

InitMobile ==
  /\ mobile \in { [raw |-> x, once |-> NaN, twice |-> NaN] : x \in MobileInputs }
  /\ mpc = "raw"
  /\ uploaded = NoFrame
  /\ df = NoFrame
  /\ origin = <<>>
  /\ pc = "off"
  /\ missing_cols = <<>>
  /\ original_mobiles = <<>>
  /\ corrected = <<>>
  /\ blanked = <<>>
  /\ still_blank_mask = <<>>
  /\ nhs_valid = <<>>
  /\ dropped_count = 0
  /\ both_missing = <<>>
  /\ both_missing_count = 0
  /\ cleaned_df = NoFrame
  /\ toasts = <<>>

\* clean_mobile applied to the raw cell
ApplyCleanMobile ==
  /\ mpc = "raw"
  /\ mobile' = [mobile EXCEPT !.once = clean_mobile(mobile.raw)]
  /\ mpc' = "cleaned"
  /\ UNCHANGED pipelineVars

\* clean_mobile applied to its own result
ReapplyCleanMobile ==
  /\ mpc = "cleaned"
  /\ mobile' = [mobile EXCEPT !.twice = clean_mobile(mobile.once)]
  /\ mpc' = "recleaned"
  /\ UNCHANGED pipelineVars

NextMobile == ApplyCleanMobile \/ ReapplyCleanMobile

SpecMobile == InitMobile /\ [][NextMobile]_vars

(***************************************************************************)
(* Properties                                                              *)
(***************************************************************************)

\* The two accepted shapes, as the documentation states them: "07" and nine
\* digits, eleven characters in all, or "+447" and nine digits, thirteen.
IsShape07(t) ==
  Len(t) = 11 /\ t[1] = "0" /\ t[2] = "7" /\ \A i \in 3..11 : t[i] \in Digit

IsShape447(t) ==
  /\ Len(t) = 13
  /\ SubSeq(t, 1, 4) = <<"+", "4", "4", "7">>
  /\ \A i \in 5..13 : t[i] \in Digit

IsAcceptedMobile(t) == IsShape07(t) \/ IsShape447(t)

\* normalizeMobile as stated: trim, O7 -> 07, leading zero, separators, then
\* accept exactly the two shapes.
NormalizedText(raw) ==
  LET a == strip(raw)
      b == IF Len(a) >= 2 /\ a[1] \in {"O", "o"} /\ a[2] = "7"
           THEN <<"0", "7">> \o SubSeq(a, 3, Len(a)) ELSE a
      c == IF Len(b) = 10 /\ b[1] = "7" /\ (\A i \in 1..10 : b[i] \in Digit)
           THEN <<"0">> \o b ELSE b
  IN  SelectSeq(c, LAMBDA ch : ch \notin {" ", "-", "(", ")"})

StatedNormalizeMobile(raw) ==
  IF raw = NaN THEN NaN
  ELSE IF IsAcceptedMobile(NormalizedText(raw)) THEN NormalizedText(raw)
  ELSE NaN

\* C3: normalizeMobile trims, rewrites O7/o7, prepends the missing zero,
\* strips separators, and returns the text iff it is "07" + 9 digits or
\* "+447" + 9 digits, and empty otherwise; with the four stated examples.
C3_NormalizeMobileAsStated ==
  mpc \in {"cleaned", "recleaned"} =>
    /\ mobile.once = StatedNormalizeMobile(mobile.raw)
    /\ (mobile.raw = <<"O", "7">> \o Nine => mobile.once = Mobile07)
    /\ (mobile.raw = <<"7">> \o Nine => mobile.once = Mobile07)
    /\ (mobile.raw = <<"+", "4", "4", " ", "7">> \o Nine
          => mobile.once = <<"+", "4", "4", "7">> \o Nine)
    /\ (mobile.raw = <<"1", "2", "3">> => mobile.once = NaN)

\* C8: cleaning the result of clean_mobile again returns the same value.
C8_MobileIdempotent ==
  mpc = "recleaned" => mobile.twice = mobile.once

(***************************************************************************)
(* Properties of the pipeline                                              *)
(***************************************************************************)

\* The input positions (0-based) that the toasts of one kind list.
Reported(kind) ==
  UNION { Range(toasts[j].rows) :
            j \in { k \in 1..Len(toasts) : toasts[k].kind = kind } }

IsEmpty(x) == x = NaN \/ x = <<>>

AbsentRequired ==
  { c \in {NHS, TEL, DOB, FIRST, EMAIL} : c \notin Range(uploaded.columns) }

RowLevelKinds ==
  { "mobile_corrected", "mobile_blanked", "email_blank", "nhs_dropped",
    "both_missing_dropped" }

\* C1: a table that lacks a required column stops the run with exactly the
\* absent required columns named, before any normalisation or filter, with
\* no cleaned table and no row-level diagnostic.
C1_MissingColumnsStop ==
  AbsentRequired # {} =>
    /\ pc \in {"check_columns", "stopped"}
    /\ df = uploaded
    /\ cleaned_df = NoFrame
    /\ original_mobiles = <<>> /\ corrected = <<>> /\ blanked = <<>>
    /\ still_blank_mask = <<>> /\ nhs_valid = <<>> /\ both_missing = <<>>
    /\ \A j \in 1..Len(toasts) : toasts[j].kind \notin RowLevelKinds
    /\ pc = "stopped" =>
         /\ Range(missing_cols) = AbsentRequired
         /\ Len(missing_cols) = Cardinality(AbsentRequired)
         /\ toasts = <<Toast("missing_columns", <<>>, 0, missing_cols)>>

C1_Witness ==
  /\ pc = "stopped"
  /\ Range(missing_cols) = {NHS, DOB}
  /\ nrows(uploaded) >= 1

\* C2: a row is reported as corrected iff its mobile changed and the new
\* value is not empty, and as blanked iff a non-empty mobile became empty;
\* no row is reported as both.
C2_MobileDiagnostics ==
  pc = "extract_email" =>
    \A i \in 1..nrows(df) :
      LET old == uploaded.rows[i][TEL]
          new == df.rows[i][TEL]
      IN  /\ (i - 1) \in Reported("mobile_corrected")
               <=> (old # new /\ ~IsEmpty(new))
          /\ (i - 1) \in Reported("mobile_blanked")
               <=> (IsEmpty(new) /\ ~IsEmpty(old))
          /\ ~((i - 1) \in Reported("mobile_corrected")
                 /\ (i - 1) \in Reported("mobile_blanked"))

EndToEndRows ==
  << Row(Nine \o <<"0">>, <<"O", "7">> \o Nine, <<"1", "9", "9", "0">>,
         <<"A", "n", "n">>, EmailAB \o <<" ", "e", "x", "t", ".", "1", "2", "3">>),
     Row(<<"b", "a", "d">>, Mobile07, <<"1", "9", "8", "5">>,
         <<"B", "o", "b">>, EmailCD),
     Row(Nine \o <<"1">>, NaN, NaN, <<"C", "a", "t">>, NaN) >>

\* C4: the three-row example keeps only its first row, with mobile
\* 07123456789 and email a@b.com, drops the second row for its NHS number
\* and the third for having neither contact, and reports row 0 alone as
\* corrected.
C4_EndToEnd ==
  (pc = "done" /\ uploaded = read_csv(required_cols, EndToEndRows)) =>
    /\ nrows(cleaned_df) = 1
    /\ origin = <<0>>
    /\ cleaned_df.rows[1][NHS] = Nine \o <<"0">>
    /\ cleaned_df.rows[1][TEL] = Mobile07
    /\ cleaned_df.rows[1][EMAIL] = EmailAB
    /\ nhs_valid = <<TRUE, FALSE, TRUE>>
    /\ dropped_count = 1
    /\ both_missing = <<FALSE, TRUE>>
    /\ both_missing_count = 1
    /\ Reported("mobile_corrected") = {0}

\* The input positions the NHS filter dropped, and those the both-missing
\* filter dropped.
NhsDroppedRows == { i - 1 : i \in { k \in 1..Len(nhs_valid) : ~nhs_valid[k] } }

BothDroppedRows ==
  LET survivors == keep_origin(RangeIndex(Len(nhs_valid)), nhs_valid)
  IN  { survivors[k] : k \in { j \in 1..Len(both_missing) : both_missing[j] } }

\* C5: final rows <= rows after the NHS filter <= input rows; the
\* both-missing filter looks only at the rows the NHS filter kept; and the
\* rows lost are the NHS-invalid count plus the both-missing count, each
\* dropped row counted once.
C5_RowCountLaw ==
  pc \in {"project", "done"} =>
    /\ nrows(df) <= Len(both_missing)
    /\ Len(both_missing) <= nrows(uploaded)
    /\ Len(both_missing) = nrows(uploaded) - dropped_count
    /\ nrows(uploaded) - nrows(df) = dropped_count + both_missing_count
    /\ NhsDroppedRows \cap BothDroppedRows = {}
    /\ Cardinality(NhsDroppedRows) = dropped_count
    /\ Cardinality(BothDroppedRows) = both_missing_count
    /\ NhsDroppedRows \cup BothDroppedRows
         = Range(RangeIndex(nrows(uploaded))) \ Range(origin)
    /\ pc = "done" => nrows(cleaned_df) = nrows(df)

C5_Witness ==
  /\ pc = "done"
  /\ both_missing_count >= 1
  /\ nrows(cleaned_df) >= 1
  /\ \E i \in 1..Len(nhs_valid) :
       /\ ~nhs_valid[i]
       /\ IsEmpty(uploaded.rows[i][EMAIL])
       /\ uploaded.rows[i][TEL] = <<"1", "2", "3">>

IsTenDigits(x) ==
  x # NaN /\ Len(x) = 10 /\ \A i \in 1..Len(x) : x[i] \in Digit

\* C6: the NHS filter keeps a row iff its NHS number is exactly ten
\* characters, all digits; the others are dropped and counted.
C6_NhsFilter ==
  pc = "both_missing_filter" =>
    /\ \A i \in 1..nrows(uploaded) :
         /\ nhs_valid[i] <=> IsTenDigits(uploaded.rows[i][NHS])
         /\ (i - 1) \in Range(origin) <=> IsTenDigits(uploaded.rows[i][NHS])
    /\ dropped_count
         = Cardinality({ i \in 1..nrows(uploaded) :
                           ~IsTenDigits(uploaded.rows[i][NHS]) })
    /\ nrows(df) = nrows(uploaded) - dropped_count

AbsentEmails ==
  { <<>>, <<"n", "a", "n">>, <<"N", "a", "N">>, <<"N", "o", "n", "e">> }

\* r is the normalised form of the email cell, the token ending before the
\* first character of stops: an absent cell stays absent, and a token that
\* is empty, "nan", "NaN" or "None" is absent.
IsNormalisedEmail(cell, r, stops) ==
  IF cell = NaN THEN r = NaN
  ELSE LET s == strip(cell)
       IN  \E n \in 0..Len(s) :
             /\ \A j \in 1..n : s[j] \notin stops
             /\ n = Len(s) \/ s[n + 1] \in stops
             /\ r = IF SubSeq(s, 1, n) \in AbsentEmails THEN NaN
                    ELSE SubSeq(s, 1, n)

EmailStage(stops) ==
  pc = "nhs_filter" =>
    /\ nrows(df) = nrows(uploaded)
    /\ Len(still_blank_mask) = nrows(uploaded)
    /\ \A i \in 1..nrows(uploaded) :
         /\ IsNormalisedEmail(uploaded.rows[i][EMAIL], df.rows[i][EMAIL], stops)
         /\ still_blank_mask[i] <=> IsEmpty(df.rows[i][EMAIL])
         /\ (i - 1) \in Reported("email_blank") <=> IsEmpty(df.rows[i][EMAIL])

\* C7 as stated: the normalised email is the trimmed cell's token before its
\* first whitespace character; "nan", "NaN", "None" and the empty text are
\* absent; EmailBlanked lists exactly the rows whose email is absent, over
\* all rows.
C7_EmailBeforeWhitespace == EmailStage(Whitespace)

\* C7 amended: the token ends before the first space character; a tab or a
\* newline inside the trimmed cell does not end it.
C7_EmailBeforeSpace == EmailStage({" "})

C7_Witness ==
  /\ pc = "nhs_filter"
  /\ \E i \in 1..nrows(df) :
       /\ uploaded.rows[i][EMAIL] = EmailAB \o <<"\t", "h", "o", "m", "e">>
       /\ df.rows[i][EMAIL] = uploaded.rows[i][EMAIL]
  /\ \E i \in 1..nrows(df) :
       /\ uploaded.rows[i][EMAIL] = <<"N", "o", "n", "e">>
       /\ still_blank_mask[i]
  /\ \E i \in 1..nrows(df) :
       /\ " " \in Range(uploaded.rows[i][EMAIL])
       /\ df.rows[i][EMAIL] = EmailAB

\* C9: the cleaned table has the five required columns in the fixed order,
\* is indexed 0..k-1, keeps the retained rows in input order, and leaves
\* their date of birth and first name as uploaded.
C9_Projection ==
  pc = "done" =>
    /\ cleaned_df.columns = <<NHS, TEL, DOB, FIRST, EMAIL>>
    /\ cleaned_df.index = RangeIndex(nrows(cleaned_df))
    /\ Len(origin) = nrows(cleaned_df)
    /\ \A k \in 1..nrows(cleaned_df) :
         /\ DOMAIN cleaned_df.rows[k] = {NHS, TEL, DOB, FIRST, EMAIL}
         /\ cleaned_df.rows[k][DOB] = uploaded.rows[origin[k] + 1][DOB]
         /\ cleaned_df.rows[k][FIRST] = uploaded.rows[origin[k] + 1][FIRST]
         /\ cleaned_df.rows[k][NHS] = uploaded.rows[origin[k] + 1][NHS]
    /\ \A k \in 1..(Len(origin) - 1) : origin[k] < origin[k + 1]

C9_Witness ==
  /\ pc = "done"
  /\ uploaded.columns = <<SURNAME, EMAIL, FIRST, NOTES, NHS, DOB, TEL>>
  /\ nrows(cleaned_df) = 2
  /\ origin = <<0, 2>>

\* C10: every cleaned row has a ten-digit NHS number, a mobile that is
\* absent or of an accepted shape, and a mobile or an email; and every input
\* row with a valid NHS number and a valid mobile or an email is kept.
C10_OutputInvariant ==
  pc = "done" =>
    /\ \A k \in 1..nrows(cleaned_df) :
         /\ IsTenDigits(cleaned_df.rows[k][NHS])
         /\ IsEmpty(cleaned_df.rows[k][TEL])
              \/ IsAcceptedMobile(cleaned_df.rows[k][TEL])
         /\ ~IsEmpty(cleaned_df.rows[k][TEL]) \/ ~IsEmpty(cleaned_df.rows[k][EMAIL])
    /\ \A i \in 1..nrows(uploaded) :
         ( /\ IsTenDigits(uploaded.rows[i][NHS])
           /\ \/ StatedNormalizeMobile(uploaded.rows[i][TEL]) # NaN
              \/ ~IsNormalisedEmail(uploaded.rows[i][EMAIL], NaN, {" "}) )
           => (i - 1) \in Range(origin)

====
